---- MODULE Spec2Model ----
(***************************************************************************)
(* A model of package wordwrap (src/writer.go): the Writer that wraps      *)
(* UTF-8 text at word boundaries while it is written to an io.Writer.      *)
(*                                                                         *)
(* A rune is modelled by its name; a byte buffer by the sequence of the    *)
(* runes it holds, its length in bytes computed from the runes' UTF-8      *)
(* sizes (bytes.Buffer.Len counts bytes, utf8.RuneCount counts runes).     *)
(***************************************************************************)
EXTENDS Integers, Sequences, FiniteSets, TLC

VARIABLES
    width,        \* Writer.width: recommended line length in runes
    tabWidh,      \* Writer.tabWidh: the width of tab characters
    pos,          \* Writer.pos: current line position
    space,        \* Writer.space: trailing word spaces (bytes.Buffer)
    word,         \* Writer.word: word builder (bytes.Buffer)
    wordLen,      \* Writer.wordLen: word length in runes
    newLine,      \* Writer.newLine: newline flag
    prefix,       \* Writer.prefix: prefix for new line
    prefixLen,    \* Writer.prefixLen: prefix length in runes
    breakpoints,  \* Writer.breakpoints: additional word break runes
    sink,         \* what Writer.writer (the io.Writer) has accepted so far
    sinkLimited,  \* whether the io.Writer fails once it is full
    sinkCap,      \* the number of bytes a limited io.Writer accepts in all
    sinkRet,      \* what the io.Writer returned from its last Write: [n, err]
    retN,         \* n returned by the last call of Writer.Write
    retErr,       \* whether the last call of Writer.Write returned an error
    sinkFailed,   \* history: a write to the io.Writer failed in the last call
    failedAt,     \* history: input bytes consumed when that write failed
    input,        \* history: all runes handed to Writer.Write so far
    calls,        \* history: "none", "one" or "many" calls of Writer.Write
    wraps         \* history: line breaks inserted by the look-ahead wrap

vars == <<width, tabWidh, pos, space, word, wordLen, newLine, prefix,
          prefixLen, breakpoints, sink, sinkLimited, sinkCap, sinkRet,
          retN, retErr, sinkFailed, failedAt, input, calls, wraps>>

-----------------------------------------------------------------------------
(* Bounds of the model. *)

\* the longest total input (in runes) handed to one Writer
MaxInput == 5
\* the largest width handed to New
MaxWidth == 3
\* the longest total input handed to a Writer over a sink that can fail
MaxFailInput == 3
\* the longest total input handed to a Writer whose setters are called
\* between the Writes
MaxSetInput == 4

\* the largest distance from 0 of a position handed to SetPosition
MaxSeed == 2

\* the largest tab width handed to SetTabWidth
MaxTab == 2
\* the largest width handed to New for a Writer that is written tabs and
\* spaces of several bytes
MaxTabLine == 5

\* the largest capacity in bytes of a sink that can fail
MaxCap == 3

-----------------------------------------------------------------------------
(* Runes and their UTF-8 encoding. *)

\* The runes of the model: a letter, a hyphen (a letter unless it is made a
\* breakpoint), U+0020, U+2003 EM SPACE (3 bytes in UTF-8), tab, newline,
\* and '>' which only prefixes hold.
Letters == {"a", "-"}
Spaces == {"sp", "emsp", "tab"}
Runes == Letters \cup Spaces \cup {"nl"}

\* the runes written to a Writer of the default configuration, where a tab
\* is one more space of one byte and a hyphen one more letter
WrapRunes == {"a", "sp", "emsp", "nl"}

\* utf8.RuneLen
RuneLen(r) == IF r = "emsp" THEN 3 ELSE 1

\* unicode.IsSpace (true of '\n' as well)
IsSpace(r) == r \in Spaces \cup {"nl"}

\* len of the UTF-8 encoding of a sequence of runes (bytes.Buffer.Len)
RECURSIVE ByteLen(_)
ByteLen(b) == IF b = <<>> THEN 0 ELSE RuneLen(Head(b)) + ByteLen(Tail(b))

\* bytes.Repeat([]byte{' '}, k); Go panics on a negative count
Repeat(k) == [i \in 1..k |-> "sp"]

\* Go's % on ints: the result has the sign of the dividend
GoRem(a, b) == IF a >= 0 THEN a % b ELSE 0 - ((0 - a) % b)

\* int(width) in New of a uint above the largest int: a negative int. The
\* code only compares width with 1, so one negative value stands for all.
NegativeWidth == -1

-----------------------------------------------------------------------------
(* The Writer and its io.Writer as one record, threaded through the        *)
(* methods. Field e is the error the method just called returned, n the    *)
(* bytes of input Write has consumed so far.                               *)

\* The io.Writer's Write(p): a sink that is not limited accepts p; a limited
\* one accepts p whole while it fits its capacity, and otherwise writes
\* nothing and returns an error.
SinkWrite(s, p) ==
    IF ~s.sinkLimited \/ ByteLen(s.sink) + ByteLen(p) <= s.sinkCap
    THEN [s EXCEPT !.sink = @ \o p,
                   !.sinkRet = [n |-> ByteLen(p), err |-> FALSE],
                   !.e = FALSE]
    ELSE [s EXCEPT !.sinkRet = [n |-> 0, err |-> TRUE],
                   !.e = TRUE,
                   !.sinkFailed = TRUE,
                   !.failedAt = IF s.sinkFailed THEN @ ELSE s.n]

\* w.space.WriteTo(w.writer): an empty buffer calls nothing; the buffer is
\* reset once all of it is written and keeps what was not written.
SpaceWriteTo(s) ==
    IF s.space = <<>>
    THEN [s EXCEPT !.e = FALSE]
    ELSE LET t == SinkWrite(s, s.space)
         IN  IF t.e THEN t ELSE [t EXCEPT !.space = <<>>]

\* w.word.WriteTo(w.writer)
WordWriteTo(s) ==
    IF s.word = <<>>
    THEN [s EXCEPT !.e = FALSE]
    ELSE LET t == SinkWrite(s, s.word)
         IN  IF t.e THEN t ELSE [t EXCEPT !.word = <<>>]

\* Writer.isBreakpoint
isBreakpoint(s, c) == c \in s.breakpoints

\* Writer.writeSpaces
writeSpaces(s) ==
    SpaceWriteTo([s EXCEPT !.pos = @ + ByteLen(s.space)])

\* Writer.writePrefix
writePrefix(s) ==
    IF ~s.newLine \/ s.prefixLen < 1
    THEN [s EXCEPT !.e = FALSE]
    ELSE SinkWrite([s EXCEPT !.newLine = FALSE, !.pos = @ + s.prefixLen],
                   s.prefix)

\* Writer.writeWord
writeWord(s) ==
    IF s.wordLen < 1
    THEN [s EXCEPT !.e = FALSE]
    ELSE LET p == writePrefix(s)
         IN  IF p.e THEN p
             ELSE LET q == writeSpaces(p)
                  IN  IF q.e THEN q
                      ELSE LET r == WordWriteTo(q)
                           IN  [r EXCEPT !.pos = @ + r.wordLen,
                                         !.wordLen = 0]

\* writeNewLine with a slip: the pending whitespace is kept for the next line
writeNewLineKeepingSpace(s) ==
    LET p == writePrefix(s)
    IN  IF p.e THEN p
        ELSE SinkWrite([p EXCEPT !.newLine = TRUE, !.pos = 0], <<"nl">>)

\* writeNewLine with a slip: no line break is written when the Writer stands
\* at the start of a line already
writeNewLineCollapsing(s) ==
    LET p == writePrefix(s)
    IN  IF p.e THEN p
        ELSE IF p.newLine
             THEN [p EXCEPT !.pos = 0, !.space = <<>>]
             ELSE SinkWrite([p EXCEPT !.newLine = TRUE, !.pos = 0,
                                      !.space = <<>>],
                            <<"nl">>)

\* Writer.writeNewLine
writeNewLine(s) ==
    LET p == writePrefix(s)
    IN  IF p.e THEN p
        ELSE SinkWrite([p EXCEPT !.newLine = TRUE, !.pos = 0,
                                 !.space = <<>>],
                       <<"nl">>)

-----------------------------------------------------------------------------
(* Writer.Write, one rune at a time. *)

\* Write, case curr == '\n': end of current line
NewlineCase(s) ==
    LET a == IF s.wordLen = 0
             THEN IF s.pos + ByteLen(s.space) > s.width
                  THEN [s EXCEPT !.pos = 0, !.space = <<>>]
                  ELSE SpaceWriteTo(s)
             ELSE s
    IN  writeNewLine(writeWord(a))

\* Write, case unicode.IsSpace(curr): end of current word
SpaceCase(s, curr) ==
    LET a == writeWord(s)
    IN  IF curr = "tab" /\ a.tabWidh > 0
        THEN [a EXCEPT !.space =
                  @ \o Repeat(a.tabWidh - GoRem(a.pos, a.tabWidh))]
        ELSE [a EXCEPT !.space = Append(@, curr)]

\* BreakpointCase with a slip: the breakpoint is written in front of the
\* pending whitespace and word
BreakpointCaseBeforeWord(s, curr) ==
    LET a == writeWord(writeSpaces(SinkWrite(s, <<curr>>)))
    IN  [a EXCEPT !.pos = @ + 1]

\* Write, case w.isBreakpoint(curr): valid breakpoint
BreakpointCase(s, curr) ==
    LET a == SinkWrite(writeWord(writeSpaces(s)), <<curr>>)
    IN  [a EXCEPT !.pos = @ + 1]

\* WouldExceed with a slip: the pending whitespace is left out of the sum
WouldExceedWithoutSpace(s) ==
    /\ s.pos + s.wordLen >= s.width
    /\ s.wordLen <= s.width

\* Write, default case: the condition of the look-ahead line break
WouldExceed(s) ==
    /\ s.pos + s.wordLen + ByteLen(s.space) >= s.width
    /\ s.wordLen <= s.width

\* Write, default case: any other character
DefaultCase(s, curr) ==
    LET a == [s EXCEPT !.word = Append(@, curr), !.wordLen = @ + 1]
    IN  IF WouldExceed(a)
        THEN [writeNewLine(a) EXCEPT !.wraps = @ + 1]
        ELSE a

\* Write, the body of the loop for one decoded rune
Step(s, curr) ==
    LET a == [s EXCEPT !.n = @ + RuneLen(curr)]
    IN  CASE curr = "nl" -> NewlineCase(a)
          [] curr # "nl" /\ IsSpace(curr) -> SpaceCase(a, curr)
          [] ~IsSpace(curr) /\ isBreakpoint(a, curr) -> BreakpointCase(a, curr)
          [] OTHER -> DefaultCase(a, curr)

\* Write, the loop over the runes of b
RECURSIVE Loop(_, _)
Loop(s, b) == IF b = <<>> THEN s ELSE Loop(Step(s, Head(b)), Tail(b))

\* WriteOp with a slip: only a negative width passes through
WriteOpWrappingAtZero(s, b) ==
    IF s.width < 0
    THEN LET t == SinkWrite(s, b)
         IN  [t EXCEPT !.n = t.sinkRet.n, !.e = t.sinkRet.err]
    ELSE [writeWord(Loop(s, b)) EXCEPT !.e = FALSE]

\* WriteOp with a slip: the word pending at the end of b is not flushed
WriteOpWithoutFlush(s, b) ==
    IF s.width < 1
    THEN LET t == SinkWrite(s, b)
         IN  [t EXCEPT !.n = t.sinkRet.n, !.e = t.sinkRet.err]
    ELSE [Loop(s, b) EXCEPT !.e = FALSE]

\* Writer.Write as a function of the Writer: the result's n and e are the
\* values Write returns.
WriteOp(s, b) ==
    IF s.width < 1
    THEN LET t == SinkWrite(s, b)
         IN  [t EXCEPT !.n = t.sinkRet.n, !.e = t.sinkRet.err]
    ELSE [writeWord(Loop(s, b)) EXCEPT !.e = FALSE]

-----------------------------------------------------------------------------
(* The state machine. *)

\* the Writer and its sink as the record the methods work on, at the start
\* of a call of Write
Self ==
    [width |-> width, tabWidh |-> tabWidh, pos |-> pos, space |-> space,
     word |-> word, wordLen |-> wordLen, newLine |-> newLine,
     prefix |-> prefix, prefixLen |-> prefixLen, breakpoints |-> breakpoints,
     sink |-> sink, sinkLimited |-> sinkLimited, sinkCap |-> sinkCap,
     sinkRet |-> sinkRet, wraps |-> wraps,
     n |-> 0, e |-> FALSE, sinkFailed |-> FALSE, failedAt |-> 0]

\* a Writer of the same configuration as this one, fresh from New and the
\* setters, over an empty sink of the same kind
Fresh ==
    [Self EXCEPT !.pos = 0, !.space = <<>>, !.word = <<>>, !.wordLen = 0,
                 !.newLine = FALSE, !.sink = <<>>, !.wraps = 0,
                 !.sinkRet = [n |-> 0, err |-> FALSE]]

\* New(w, width) over a given sink
New(u, limited, cap) ==
    /\ width = u
    /\ tabWidh = 0
    /\ pos = 0
    /\ space = <<>>
    /\ word = <<>>
    /\ wordLen = 0
    /\ newLine = FALSE
    /\ prefix = <<>>
    /\ prefixLen = 0
    /\ breakpoints = {}
    /\ sink = <<>>
    /\ sinkLimited = limited
    /\ sinkCap = cap
    /\ sinkRet = [n |-> 0, err |-> FALSE]
    /\ retN = 0
    /\ retErr = FALSE
    /\ sinkFailed = FALSE
    /\ failedAt = 0
    /\ input = <<>>
    /\ calls = "none"
    /\ wraps = 0

\* Writer.Write(b)
Write(b) ==
    LET t == WriteOp(Self, b)
    IN  /\ pos' = t.pos
        /\ space' = t.space
        /\ word' = t.word
        /\ wordLen' = t.wordLen
        /\ newLine' = t.newLine
        /\ sink' = t.sink
        /\ sinkRet' = t.sinkRet
        /\ retN' = t.n
        /\ retErr' = t.e
        /\ sinkFailed' = t.sinkFailed
        /\ failedAt' = t.failedAt
        /\ wraps' = t.wraps
        /\ input' = input \o b
        /\ calls' = IF calls = "none" THEN "one" ELSE "many"
        /\ UNCHANGED <<width, tabWidh, prefix, prefixLen, breakpoints,
                       sinkLimited, sinkCap>>

\* Writer.SetTabWidth(width)
SetTabWidth(n) ==
    /\ tabWidh' = n
    /\ UNCHANGED <<width, pos, space, word, wordLen, newLine, prefix,
                   prefixLen, breakpoints, sink, sinkLimited, sinkCap,
                   sinkRet, retN, retErr, sinkFailed, failedAt, input,
                   calls, wraps>>

\* Writer.SetPrefix(s); utf8.RuneCountInString(s) is the length of the
\* sequence of runes
SetPrefix(s) ==
    /\ prefix' = s
    /\ prefixLen' = Len(s)
    /\ UNCHANGED <<width, tabWidh, pos, space, word, wordLen, newLine,
                   breakpoints, sink, sinkLimited, sinkCap, sinkRet, retN,
                   retErr, sinkFailed, failedAt, input, calls, wraps>>

\* Writer.SetBreakpoints(s), s given as the set of its runes
SetBreakpoints(s) ==
    /\ breakpoints' = s
    /\ UNCHANGED <<width, tabWidh, pos, space, word, wordLen, newLine,
                   prefix, prefixLen, sink, sinkLimited, sinkCap, sinkRet,
                   retN, retErr, sinkFailed, failedAt, input, calls, wraps>>

\* Writer.SetPosition(p)
SetPosition(p) ==
    /\ pos' = p
    /\ UNCHANGED <<width, tabWidh, space, word, wordLen, newLine, prefix,
                   prefixLen, breakpoints, sink, sinkLimited, sinkCap,
                   sinkRet, retN, retErr, sinkFailed, failedAt, input,
                   calls, wraps>>

\* the byte slices of at most k runes over the runes of R, none empty
Chunks(R, k) == UNION {[1..m -> R] : m \in 1..k}

\* A Writer made by New with a width of 0..MaxWidth over a sink that never
\* fails, and any sequence of Writes to it.
Init == \E u \in 0..MaxWidth : New(u, FALSE, 0)

Next == \E b \in Chunks(WrapRunes, MaxInput - Len(input)) : Write(b)

Spec == Init /\ [][Next]_vars

\* A Writer made by New with any width, a negative one included, over a sink
\* that never fails or over one that fails once it is full, and any sequence
\* of Writes to it.
InitFail ==
    \E u \in {NegativeWidth} \cup (0..MaxWidth), cap \in 0..MaxCap,
       limited \in BOOLEAN :
        /\ limited \/ cap = 0
        /\ New(u, limited, cap)

NextFail == \E b \in Chunks(WrapRunes, MaxFailInput - Len(input)) : Write(b)

SpecFail == InitFail /\ [][NextFail]_vars

\* the runes written to a Writer with a prefix
PrefixRunes == {"a", "sp", "nl"}

\* the prefixes handed to SetPrefix: ">" and "> "
Prefixes == {<<">">>, <<">", "sp">>}

\* A Writer made by New with a width of 1..MaxWidth, its prefix set before
\* the first Write, and any sequence of Writes to it.
InitPrefix == \E u \in 1..MaxWidth : New(u, FALSE, 0)

NextPrefix ==
    \/ /\ calls = "none"
       /\ prefixLen = 0
       /\ \E s \in Prefixes : SetPrefix(s)
    \/ /\ prefixLen > 0
       /\ \E b \in Chunks(PrefixRunes, MaxInput - Len(input)) : Write(b)

SpecPrefix == InitPrefix /\ [][NextPrefix]_vars

\* A Writer made by New with a width of 1..MaxWidth, and any sequence of
\* SetPrefix and Write calls on it.
InitReprefix == \E u \in 1..MaxWidth : New(u, FALSE, 0)

NextReprefix ==
    \/ \E s \in Prefixes : SetPrefix(s)
    \/ \E b \in Chunks(PrefixRunes, MaxSetInput - Len(input)) : Write(b)

SpecReprefix == InitReprefix /\ [][NextReprefix]_vars

\* the positions handed to SetPosition
Positions == (0 - MaxSeed)..MaxSeed

\* A Writer made by New with a width of 1..MaxWidth, its position set before
\* the first Write, and any sequence of Writes to it.
InitPosition == \E u \in 1..MaxWidth : New(u, FALSE, 0)

NextPosition ==
    \/ /\ calls = "none"
       /\ \E p \in Positions : SetPosition(p)
    \/ \E b \in Chunks(PrefixRunes, MaxSetInput - Len(input)) : Write(b)

SpecPosition == InitPosition /\ [][NextPosition]_vars

\* the runes written to a Writer whose tab width is set
TabRunes == {"a", "sp", "emsp", "tab", "nl"}

\* A Writer made by New with a width of 1..MaxTabLine, its tab width set or
\* left at 0 before the first Write, and any sequence of Writes to it.
InitTab == \E u \in 1..MaxTabLine : New(u, FALSE, 0)

NextTab ==
    \/ /\ calls = "none"
       /\ \E n \in 0..MaxTab : SetTabWidth(n)
    \/ \E b \in Chunks(TabRunes, MaxSetInput - Len(input)) : Write(b)

SpecTab == InitTab /\ [][NextTab]_vars

\* the runes written to a Writer whose breakpoints are set
BreakRunes == {"a", "-", "sp", "nl"}

\* the breakpoint strings handed to SetBreakpoints, as the set of their runes
BreakSets == {{}, {"-"}}

\* A Writer made by New with a width of 1..MaxWidth, its breakpoints set
\* before the first Write, and any sequence of Writes to it.
InitBreak == \E u \in 1..MaxWidth : New(u, FALSE, 0)

NextBreak ==
    \/ /\ calls = "none"
       /\ \E s \in BreakSets : SetBreakpoints(s)
    \/ \E b \in Chunks(BreakRunes, MaxSetInput - Len(input)) : Write(b)

SpecBreak == InitBreak /\ [][NextBreak]_vars

-----------------------------------------------------------------------------
(* What the properties are stated with. *)

\* the lines of a text: what stands between its line breaks, the last,
\* unfinished line included
RECURSIVE LinesFrom(_, _, _)
LinesFrom(b, cur, acc) ==
    IF b = <<>> THEN Append(acc, cur)
    ELSE IF Head(b) = "nl"
         THEN LinesFrom(Tail(b), <<>>, Append(acc, cur))
         ELSE LinesFrom(Tail(b), Append(cur, Head(b)), acc)

Lines(b) == LinesFrom(b, <<>>, <<>>)

\* the number of occurrences of rune r in b
Count(b, r) == Cardinality({i \in DOMAIN b : b[i] = r})

\* a single word: not empty, and no whitespace in it
IsWord(l) == l # <<>> /\ \A i \in DOMAIN l : ~IsSpace(l[i])

\* whitespace only, or empty
IsBlank(l) == \A i \in DOMAIN l : IsSpace(l[i])

\* l begins with p
StartsWith(l, p) == Len(l) >= Len(p) /\ SubSeq(l, 1, Len(p)) = p

\* the empty lines of a text that a line break ends
EmptyLines(b) ==
    Cardinality({i \in DOMAIN b :
                    b[i] = "nl" /\ (i = 1 \/ b[i - 1] = "nl")})

\* the empty or whitespace-only lines of a text that a line break ends
BlankLines(b) ==
    LET ls == Lines(b)
    IN  Cardinality({i \in 1..(Len(ls) - 1) : IsBlank(ls[i])})

\* a text that is wrapped to w already: no line longer than w, the words
\* of a line separated by single U+0020, no whitespace at a line's ends
AlreadyWrapped(b, w) ==
    \A k \in DOMAIN Lines(b) :
        LET l == Lines(b)[k]
        IN  /\ Len(l) <= w
            /\ \A i \in DOMAIN l : IsSpace(l[i]) =>
                   /\ l[i] = "sp"
                   /\ i > 1 /\ i < Len(l)
                   /\ l[i + 1] # "sp"

\* the runes Write was handed in its last call
LastChunk(before, after) == SubSeq(after, Len(before) + 1, Len(after))

-----------------------------------------------------------------------------
(* The properties. *)

\* C1: Streaming equivalence. For a width of at least 1, the sink holds
\* after any sequence of Writes exactly what a single Write of the whole
\* input puts on the sink of a fresh Writer of the same configuration.
StreamingEquivalence ==
    width >= 1 => sink = WriteOp(Fresh, input).sink

\* C2: No overflow. For a Writer of the default configuration and a width
\* W >= 1, every line on the sink has at most W runes, unless the line is a
\* single word (no whitespace in it) longer than W.
NoOverflow ==
    width >= 1 =>
        \A k \in DOMAIN Lines(sink) :
            Len(Lines(sink)[k]) <= width \/ IsWord(Lines(sink)[k])

\* C2, its case: the look-ahead wrap has broken a line, and a line longer
\* than the width stands on the sink.
NoOverflowWitness ==
    /\ width >= 1
    /\ wraps >= 1
    /\ \E k \in DOMAIN Lines(sink) : Len(Lines(sink)[k]) > width

\* C3: A sink failure is propagated. For a width of at least 1, when a
\* write to the sink failed in the last call of Write, that call returned
\* an error and the bytes consumed up to and including the rune at which
\* the sink failed.
SinkFailurePropagated ==
    (width >= 1 /\ sinkFailed) => (retErr /\ retN = failedAt)

\* C4: Trailing whitespace is stripped. For a width of at least 1, no line
\* on the sink ends with a whitespace rune.
NoTrailingWhitespace ==
    width >= 1 =>
        \A k \in DOMAIN Lines(sink) :
            LET l == Lines(sink)[k]
            IN  l = <<>> \/ ~IsSpace(l[Len(l)])

\* C5: Newline preservation as claimed. The sink holds as many newlines as
\* the input.
NewlinesEqual == Count(sink, "nl") = Count(input, "nl")

\* C5 as amended: with no prefix and a sink that accepts every write, the
\* sink holds as many newlines as the input and the look-ahead wrap added
\* together: each newline of the input is written once, each wrap adds one,
\* and a width below 1 wraps nothing.
NewlinesPreserved ==
    /\ Count(sink, "nl") = Count(input, "nl") + wraps
    /\ width < 1 => wraps = 0

\* C5, its case: the input held newlines, two in a row among them, and the
\* wrap has added one.
NewlinesPreservedWitness ==
    /\ wraps >= 1
    /\ EmptyLines(input) >= 1
    /\ Count(input, "nl") >= 2

\* C6: Blank lines survive unchanged in count. With no prefix and a width
\* of at least 1, the sink holds no more empty lines than the input holds
\* empty or whitespace-only lines: a line break the wrap inserts makes no
\* empty line.
NoSpuriousBlankLines ==
    (width >= 1 /\ prefixLen = 0) => EmptyLines(sink) <= BlankLines(input)

\* C7: Already-wrapped text is unchanged. For a width W >= 1 and the
\* default configuration, a single Write of a text whose lines have at most
\* W runes, single spaces between words and no whitespace at their ends
\* puts exactly that text on the sink.
AlreadyWrappedUnchanged ==
    (width >= 1 /\ calls = "one" /\ AlreadyWrapped(input, width))
        => sink = input

\* C8: Pass-through mode. A Write to a Writer whose width is below 1 leaves
\* pos, the pending whitespace, the pending word and the newLine flag as
\* they are, returns what the sink returned, and appends its argument to
\* the sink when the sink accepts it; over a sink that accepts every write
\* the sink holds the concatenation of the inputs.
PassThrough ==
    /\ [][width < 1 =>
             /\ UNCHANGED <<pos, space, word, wordLen, newLine>>
             /\ retN' = sinkRet'.n
             /\ retErr' = sinkRet'.err
             /\ sink' = IF sinkRet'.err THEN sink
                        ELSE sink \o LastChunk(input, input')
             /\ ~sinkRet'.err => retN' = ByteLen(LastChunk(input, input'))
         ]_vars
    /\ []((width < 1 /\ ~sinkLimited) => sink = input)

\* C8, its case: a Writer of a width below 1 has forwarded input to the
\* sink and has had a later Write refused by the sink.
PassThroughWitness ==
    /\ width < 1
    /\ calls = "many"
    /\ sink # <<>>
    /\ retErr
    /\ retN = 0

\* the lines of the sink after the first
LaterLines == {k \in DOMAIN Lines(sink) : k > 1}

\* C9: Prefix placement. With a prefix set before the first Write and a
\* width of at least 1, the first line of the sink holds no prefix and
\* every later line that holds any rune begins with the prefix.
PrefixPlacement ==
    (width >= 1 /\ prefixLen > 0) =>
        /\ Count(Lines(sink)[1], ">") = 0
        /\ \A k \in LaterLines :
               Lines(sink)[k] = <<>> \/ StartsWith(Lines(sink)[k], prefix)

\* a line of the sink without the prefix it begins with
Text(l) ==
    IF StartsWith(l, prefix) THEN SubSeq(l, Len(prefix) + 1, Len(l)) ELSE l

\* C10: The prefix counts toward the width. With a prefix shorter than the
\* width W set before the first Write, every line of the sink, its prefix
\* included, has at most W runes, unless its text is a single word longer
\* than W.
PrefixCountsTowardWidth ==
    (width >= 1 /\ prefixLen > 0 /\ prefixLen < width) =>
        \A k \in DOMAIN Lines(sink) :
            LET l == Lines(sink)[k]
            IN  \/ Len(l) <= width
                \/ IsWord(Text(l)) /\ Len(Text(l)) > width

\* the line of a text that is not ended yet
CurLine(b) == Lines(b)[Len(Lines(b))]

\* C11: SetPrefix is not retroactive. In any sequence of Write and
\* SetPrefix calls the prefix is written only at the start of a line: a
\* Write never puts the prefix behind content that stood on the current
\* line already (the line-start flag is false once the line holds content).
PrefixNotRetroactive ==
    [][CurLine(sink) # <<>> =>
          LET l == Lines(sink')[Len(Lines(sink))]
          IN  \A i \in (Len(CurLine(sink)) + 1)..Len(l) : l[i] # ">"
      ]_vars

\* the words of a text: its maximal runs of runes that are no whitespace
RECURSIVE WordsFrom(_, _, _)
WordsFrom(b, cur, acc) ==
    IF b = <<>> THEN IF cur = <<>> THEN acc ELSE Append(acc, cur)
    ELSE IF IsSpace(Head(b))
         THEN WordsFrom(Tail(b), <<>>,
                        IF cur = <<>> THEN acc ELSE Append(acc, cur))
         ELSE WordsFrom(Tail(b), Append(cur, Head(b)), acc)

Words(b) == WordsFrom(b, <<>>, <<>>)

\* C12: Whole-word integrity. For a width of at least 1 and any sequence
\* of Writes, every word of the input stands unbroken on one line of the
\* sink: the words of the sink are the words of the input, no line break
\* between two runes of a word.
WholeWords ==
    width >= 1 => Words(sink) = Words(input)

\* the room SetPosition(p) leaves on the first line of a Writer of width w
Room(w, p) == IF p >= w THEN 0 ELSE w - p

\* C13: SetPosition seeds the first line. After SetPosition(p) on a fresh
\* Writer of width W >= 1, the first Write leaves a first line of at most
\* W - p runes (none when p >= W), unless that line is a single word longer
\* than W; every later line has at most W runes, unless it is a single word
\* longer than W.
PositionSeedsFirstLine ==
    [][(calls = "none" /\ calls' = "one" /\ width >= 1) =>
          \A k \in DOMAIN Lines(sink') :
              LET l == Lines(sink')[k]
              IN  \/ Len(l) <= IF k = 1 THEN Room(width, pos) ELSE width
                  \/ IsWord(l) /\ Len(l) > width
      ]_vars

\* the last rune of a text and the one before it
Last(b) == b[Len(b)]
LastButOne(b) == b[Len(b) - 1]

\* C14: Tab alignment. With a tab width T > 0, a word that follows a tab
\* and is written on the line the tab stands on starts at a column that is a
\* multiple of T, whatever whitespace precedes the tab. (A word the wrap
\* moved to a new line starts at column 0.)
TabAlignment ==
    (width >= 1 /\ tabWidh > 0 /\ Len(input) >= 2
       /\ Last(input) = "a" /\ LastButOne(input) = "tab")
        => (Len(CurLine(sink)) - 1) % tabWidh = 0

\* the runes of a text that are no whitespace, in their order
NonSpace(b) == SelectSeq(b, LAMBDA c : ~IsSpace(c))

\* a line the Writer has no place to break: no whitespace and no breakpoint
Unbreakable(l) == \A i \in DOMAIN l : ~IsSpace(l[i]) /\ l[i] \notin breakpoints

PositionInvariant ==
    width >= 1 => pos = Len(CurLine(sink))

\* the whitespace a text ends with
RECURSIVE TrailingSpace(_)
TrailingSpace(b) ==
    IF b = <<>> \/ Last(b) \notin Spaces THEN <<>>
    ELSE Append(TrailingSpace(SubSeq(b, 1, Len(b) - 1)), Last(b))

\* C17: End-of-input flush. For a width of at least 1, whenever a Write has
\* returned the pending word is empty and every word rune received so far
\* is on the sink, while the whitespace the input ends with is pending and
\* not written: the sink never ends with whitespace other than a line
\* break.
FlushedAtReturn ==
    width >= 1 =>
        /\ wordLen = 0
        /\ word = <<>>
        /\ Len(NonSpace(sink)) = Len(NonSpace(input))
        /\ space = TrailingSpace(input)
        /\ sink = <<>> \/ Last(sink) \notin Spaces

\* A second Write returned with words on the sink and the whitespace behind
\* the last of them held back.
FlushedAtReturnWitness ==
    /\ width >= 1
    /\ calls = "many"
    /\ NonSpace(sink) # <<>>
    /\ Last(sink) \notin Spaces
    /\ space # <<>>
    /\ Last(input) = "sp"

\* C18: Keep-if-it-fits at a newline. For a width of at least 1, a newline
\* that arrives while no word is pending has the pending whitespace written
\* in front of the line break if and only if pos plus the length of that
\* whitespace, in runes as the width is, is at most the width; otherwise
\* the whitespace is discarded.
KeepIfItFits ==
    [][(width >= 1 /\ LastChunk(input, input') = <<"nl">>) =>
          sink' = sink \o (IF pos + Len(space) <= width THEN space ELSE <<>>)
                       \o <<"nl">>
      ]_vars

\* C19: Content preservation. For a width of at least 1 and no prefix, the
\* runes of the sink that are no whitespace are, after any sequence of
\* Writes, the runes of the whole input that are no whitespace, in the same
\* order: wrapping adds, removes and moves whitespace only.
ContentPreserved ==
    (width >= 1 /\ prefixLen = 0) => NonSpace(sink) = NonSpace(input)

\* Several Writes of words and breakpoints were wrapped, and whitespace of
\* the input is missing from the sink.
ContentPreservedWitness ==
    /\ width >= 1
    /\ prefixLen = 0
    /\ breakpoints # {}
    /\ calls = "many"
    /\ wraps >= 1
    /\ Count(sink, "a") >= 1
    /\ Count(sink, "-") >= 1
    /\ space = <<>>
    /\ Count(sink, "sp") < Count(input, "sp")

\* C20: Whitespace before a forced wrap is dropped. With no prefix and a
\* width of at least 1, a Write of runes that hold no newline adds only line
\* breaks of the look-ahead wrap, and the whitespace pending at each of them
\* is discarded: no line ended by such a break ends with whitespace, and no
\* line begun by one begins with whitespace.
WrapDropsWhitespace ==
    [][(width >= 1 /\ prefixLen = 0
          /\ Count(LastChunk(input, input'), "nl") = 0) =>
          LET old == Len(Lines(sink))
              new == Lines(sink')
          IN  \A k \in old..Len(new) :
                  /\ k < Len(new) =>
                         (new[k] = <<>> \/ Last(new[k]) \notin Spaces)
                  /\ k > old =>
                         (new[k] = <<>> \/ Head(new[k]) \notin Spaces)
      ]_vars

\* An input without newlines that ends with a word was wrapped, and
\* whitespace of it is neither on the sink nor pending.
WrapDropsWhitespaceWitness ==
    /\ width >= 1
    /\ prefixLen = 0
    /\ wraps >= 1
    /\ Count(input, "nl") = 0
    /\ Head(input) = "a"
    /\ Last(input) = "a"
    /\ space = <<>>
    /\ Count(sink, "nl") >= 1
    /\ Count(sink, "sp") + Count(sink, "emsp")
           < Count(input, "sp") + Count(input, "emsp")

====
